---- MODULE Spec2Model ----
(***************************************************************************)
(* Model of the batched-write buffer of boltdb/main.go: boltType keeps an  *)
(* in-memory map (buffer), Writer inserts into it and calls Flush when the  *)
(* map has more than batchSize entries, Flush writes the whole map to the   *)
(* bolt bucket in one Db.Update transaction and empties the map.            *)
(*                                                                          *)
(* Strings are sequences of one-character strings, []byte values are        *)
(* sequences of byte codes.  The bolt bucket is a function from byte keys   *)
(* to byte values.  Db.Update is modelled as bolt documents it: the         *)
(* function's Puts are pending until it returns nil and the commit          *)
(* succeeds, an error rolls every Put back, and the commit is fsynced       *)
(* unless Db.NoSync is set.                                                 *)
(***************************************************************************)
EXTENDS Integers, Sequences, FiniteSets, TLC

\* ---------------------------------------------------------------- bounds
\* Number of Writer calls one run makes (writeTest's size).
MaxWrites == 4
\* Keys the caller uses are those of keyValue(0) .. keyValue(MaxKey).
MaxKey == 2
\* Explicit Flush calls made before the final one.
MaxExplicit == 1
\* limit arguments handed to NewBoltType are 1 .. MaxLimit.
MaxLimit == 3

\* ------------------------------------------------------- program constants
\* batchSize literal of NewBoltType (10000 in the source, scaled down so
\* that a run of MaxWrites calls crosses it).
BatchSizeLiteral == 2
\* strings.Repeat(key, 5) in keyValue.
RepeatCount == 5

\* ------------------------------------------------------------ pure helpers
DigitChars == <<"0", "1", "2", "3", "4", "5", "6", "7", "8", "9">>
LetterChars == <<"a", "b", "c", "d", "e", "f", "g", "h", "i", "j", "k", "l", "m",
                 "n", "o", "p", "q", "r", "s", "t", "u", "v", "w", "x", "y", "z">>

\* strconv.Itoa for non-negative i.
RECURSIVE Itoa(_)
Itoa(i) == IF i < 10 THEN <<DigitChars[i + 1]>>
           ELSE Itoa(i \div 10) \o <<DigitChars[(i % 10) + 1]>>

\* strings.Repeat(s, n).
RECURSIVE Repeat(_, _)
Repeat(s, n) == IF n <= 0 THEN <<>> ELSE s \o Repeat(s, n - 1)

\* keyValue(i): key = Itoa(i), value = Repeat(key, 5).
keyValue(i) == <<Itoa(i), Repeat(Itoa(i), RepeatCount)>>

\* []byte(s): the byte codes of the characters of s ('0' is 48, 'a' is 97).
ByteOfChar(c) ==
    IF \E d \in 1..10 : DigitChars[d] = c
      THEN 47 + (CHOOSE d \in 1..10 : DigitChars[d] = c)
      ELSE 96 + (CHOOSE l \in 1..26 : LetterChars[l] = c)
ToBytes(s) == [n \in 1..Len(s) |-> ByteOfChar(s[n])]

\* string(b): the characters of the byte codes of b.
CharOfByte(b) == IF b <= 57 THEN DigitChars[b - 47] ELSE LetterChars[b - 96]
FromBytes(b) == [n \in 1..Len(b) |-> CharOfByte(b[n])]

EmptyMap == [k \in {} |-> <<>>]

\* The value of limit while no NewBoltType call is running.
NoLimit == "none"

\* m[k] = v of a Go map: insert or overwrite.
MapSet(m, k, v) == [x \in (DOMAIN m) \cup {k} |-> IF x = k THEN v ELSE m[x]]

\* delete(m, k) of a Go map.
MapDelete(m, k) == [x \in (DOMAIN m) \ {k} |-> m[x]]

\* base with every entry of upd written over it.
Overlay(base, upd) ==
    [x \in (DOMAIN base) \cup (DOMAIN upd) |->
        IF x \in DOMAIN upd THEN upd[x] ELSE base[x]]

\* The bucket contents a map of strings becomes when every entry is Put.
BytesOfMap(m) ==
    [bk \in {ToBytes(k) : k \in DOMAIN m} |->
        ToBytes(m[CHOOSE k \in DOMAIN m : ToBytes(k) = bk])]

\* Inputs of the caller.
Keys == {keyValue(i)[1] : i \in 0..MaxKey}
\* The values given for the key of keyValue(i): the one writeTest gives it,
\* and for the first two keys a second one, which is what an overwrite
\* needs to be seen.
ValuesOf(i) ==
    {keyValue(i)[2]} \cup (IF i = 0 THEN {keyValue(1)[2]}
                           ELSE IF i = 1 THEN {keyValue(0)[2]} ELSE {})
Limits == 1..MaxLimit
\* The calls of the caller: any of its keys with any of the key's values;
\* the calls writeTest makes, Writer(keyValue(i)), are among them.
Inputs == UNION {{<<keyValue(i)[1], v>> : v \in ValuesOf(i)} : i \in 0..MaxKey}

\* hellobolt: b.Put([]byte("answer"), []byte("42")).
AnswerKey == <<"a", "n", "s", "w", "e", "r">>
AnswerValue == <<"4", "2">>

\* ---------------------------------------------------- the code's decisions
\* prepBolt: os.Remove(path), bolt.Open, CreateBucketIfNotExists: the bucket
\* of a new file, whatever the file at the path held.
prepBolt_keep(file) == file
prepBolt(file) == EmptyMap

\* mapType.Writer: m.db[key] = value.
mapWriter(db, k, v) == MapSet(db, k, v)

\* NewBoltType: the batchSize field of the new boltType.
NewBatchSize(lim) == BatchSizeLiteral

\* Writer: mybolt.buffer[key] = value.
BufferPut_keepFirst(buf, k, v) == IF k \in DOMAIN buf THEN buf ELSE MapSet(buf, k, v)
BufferPut(buf, k, v) == MapSet(buf, k, v)

\* Writer: len(mybolt.buffer) > mybolt.batchSize.
OverBatchSize_ge(buf, bs) == Cardinality(DOMAIN buf) >= bs
OverBatchSize_late(buf, bs) == Cardinality(DOMAIN buf) > bs + 1
OverBatchSize(buf, bs) == Cardinality(DOMAIN buf) > bs

\* Flush: b.Put([]byte(key), []byte(value)) into the open transaction.
TxPut_key(pending, k, v) == MapSet(pending, ToBytes(k), ToBytes(k))
TxPut(pending, k, v) == MapSet(pending, ToBytes(k), ToBytes(v))

\* Flush: delete(mybolt.buffer, key).
BufferDelete_none(buf, k) == buf
BufferDelete(buf, k) == MapDelete(buf, k)

\* Db.Update returned an error: the transaction is rolled back.
Rollback_partial(bucket, pending) == Overlay(bucket, pending)
Rollback(bucket, pending) == bucket

\* Db.Update commits the transaction.
Commit_clear(bucket, pending) == pending
Commit_first(bucket, pending) == Overlay(pending, bucket)
Commit(bucket, pending) == Overlay(bucket, pending)

\* The file images a crash can leave: a commit with NoSync unset is fsynced
\* and is the only image; with NoSync set the new image may or may not have
\* reached the disk.
DiskAfterCommit_sync(noSync, images, newBucket) == {newBucket}
DiskAfterCommit(noSync, images, newBucket) ==
    IF noSync THEN images \cup {newBucket} ELSE {newBucket}

\* Flush: if err != nil { log.Fatal(err) }.
AfterUpdate_ignore(err, ret) == ret
AfterUpdate(err, ret) == IF err THEN "fatal" ELSE ret

\* ------------------------------------------------------------------ state
VARIABLES
    pc,          \* "start" | "main" | "new" | "loop" | "flush" | "done" |
                 \* "fatal" | "abort" | "crashed"
    limit,       \* parameter of NewBoltType, NoLimit outside the call
    batchSize,   \* boltType.batchSize
    buffer,      \* boltType.buffer
    NoSync,      \* boltType.Db.NoSync
    store,       \* committed contents of the bucket (what Db.View reads)
    disk,        \* bucket contents a crash may leave in the file
    tx,          \* Puts of the open transaction
    iter,        \* keys the range loop of Flush has not visited yet
    caller,      \* who called the running Flush: "Writer" | "Flush" | "final"
    nWrites,     \* history: number of Writer calls made
    written,     \* history: last value of every key given to Writer, the
                 \*          db of a mapType given the same calls
    since,       \* history: last value of every key given to Writer since
                 \*          the last Flush began
    sinceCalls,  \* history: number of Writer calls since the last Flush began
    sinceOver,   \* history: one of them replaced a different value
    expected,    \* history: since, when the last Flush began
    batchCalls,  \* history: sinceCalls, when the last Flush began
    batchOver,   \* history: sinceOver, when the last Flush began
    crossOver,   \* history: a Writer call gave a key a value other than the
                 \*          one the bucket held for it
    txOpened,    \* history: number of Db.Update calls of Flush
    autoFlushes, \* history: number of Flush calls made by Writer
    explicit,    \* history: number of Flush calls made by the caller
    exceeded,    \* history: len(buffer) was above batchSize at some time
    snapshot,    \* history: store when the last transaction began
    batch,       \* history: buffer when the last Flush began
    txState,     \* history: "none" | "open" | "committed" | "rolledback"
    commits,     \* history: every committed content of the bucket
    flushedOK,   \* history: store when the last successful Flush returned
    batchTotal,  \* history: number of entries the Flush calls were given
    earlier      \* history: the bucket hellobolt left in the file

vars == <<pc, limit, batchSize, buffer, NoSync, store, disk, tx, iter, caller,
          nWrites, written, since, sinceCalls, sinceOver, expected,
          batchCalls, batchOver, crossOver, txOpened, autoFlushes, explicit,
          exceeded, snapshot, batch, txState, commits, flushedOK,
          batchTotal, earlier>>

\* What the Writer calls made so far were.
calls == <<nWrites, written, crossOver, exceeded>>

\* What the last Flush was given and did.
flushes == <<since, sinceCalls, sinceOver, expected, batchCalls, batchOver,
             txOpened, snapshot, batch, txState, batchTotal>>

\* A file an earlier run of the program left at the path.
OldFile == BytesOfMap(MapSet(MapSet(EmptyMap, AnswerKey, AnswerValue),
                             keyValue(0)[1], keyValue(0)[2]))

Init ==
    /\ pc = "start"
    /\ limit = NoLimit
    /\ batchSize = 0
    /\ buffer = EmptyMap
    /\ NoSync = FALSE
    /\ store \in {EmptyMap, OldFile}
    /\ disk = {store}
    /\ tx = EmptyMap
    /\ iter = {}
    /\ caller = "none"
    /\ nWrites = 0
    /\ written = EmptyMap
    /\ since = EmptyMap
    /\ sinceCalls = 0
    /\ sinceOver = FALSE
    /\ expected = EmptyMap
    /\ batchCalls = 0
    /\ batchOver = FALSE
    /\ crossOver = FALSE
    /\ txOpened = 0
    /\ autoFlushes = 0
    /\ explicit = 0
    /\ exceeded = FALSE
    /\ snapshot = EmptyMap
    /\ batch = EmptyMap
    /\ txState = "none"
    /\ commits = {store}
    /\ flushedOK = EmptyMap
    /\ batchTotal = 0
    /\ earlier = EmptyMap

\* hellobolt(): prepBolt, one transaction that Puts "answer", a View, Close.
\* A failed transaction ends in log.Fatal.
hellobolt ==
    /\ pc = "start"
    /\ \E err \in BOOLEAN :
        /\ pc' = IF err THEN "abort" ELSE "main"
        /\ store' = IF err
                      THEN Rollback(prepBolt(store),
                                    TxPut(EmptyMap, AnswerKey, AnswerValue))
                      ELSE Commit(prepBolt(store),
                                  TxPut(EmptyMap, AnswerKey, AnswerValue))
    /\ disk' = {store'}
    /\ commits' = {prepBolt(store), store'}
    /\ earlier' = store'
    /\ UNCHANGED <<limit, batchSize, buffer, NoSync, tx, iter, caller, calls,
                   flushes, autoFlushes, explicit, flushedOK>>

\* NewBoltType(limit) up to its return statement: prepBolt opens a fresh
\* file and creates the bucket, and the boltType is built.
NewBoltType ==
    /\ pc = "main"
    /\ \E lim \in Limits :
        /\ limit' = lim
        /\ batchSize' = NewBatchSize(lim)
    /\ buffer' = EmptyMap
    /\ NoSync' = FALSE
    /\ store' = prepBolt(store)
    /\ disk' = {store'}
    /\ commits' = {store'}
    /\ pc' = "new"
    /\ UNCHANGED <<tx, iter, caller, calls, flushes, autoFlushes, explicit,
                   flushedOK, earlier>>

\* NewBoltType returns the boltType; its parameter is gone, no field of the
\* boltType holds it.
NewBoltTypeReturn ==
    /\ pc = "new"
    /\ limit' = NoLimit
    /\ pc' = "loop"
    /\ UNCHANGED <<batchSize, buffer, NoSync, store, disk, tx, iter, caller,
                   calls, flushes, autoFlushes, explicit, commits, flushedOK,
                   earlier>>

\* Entry of Flush: Db.Update begins a transaction and the range loop starts.
\* buf is the buffer, given the entries and calls the histories count.
BeginFlush(buf, who, given, ncalls, over) ==
    /\ pc' = "flush"
    /\ caller' = who
    /\ tx' = EmptyMap
    /\ iter' = DOMAIN buf
    /\ txOpened' = txOpened + 1
    /\ snapshot' = store
    /\ batch' = buf
    /\ txState' = "open"
    /\ expected' = given
    /\ batchCalls' = ncalls
    /\ batchOver' = over
    /\ since' = EmptyMap
    /\ sinceCalls' = 0
    /\ sinceOver' = FALSE
    /\ batchTotal' = batchTotal + Cardinality(DOMAIN buf)

\* Writer(key, value): insert, then Flush when the buffer is over batchSize.
Writer ==
    /\ pc = "loop"
    /\ nWrites < MaxWrites
    /\ \E kv \in Inputs : LET k == kv[1]  v == kv[2] IN
        /\ buffer' = BufferPut(buffer, k, v)
        /\ written' = mapWriter(written, k, v)
        /\ crossOver' = (crossOver \/ (ToBytes(k) \in DOMAIN store
                                        /\ store[ToBytes(k)] # ToBytes(v)))
        /\ IF OverBatchSize(buffer', batchSize)
             THEN /\ BeginFlush(buffer', "Writer", MapSet(since, k, v),
                                sinceCalls + 1,
                                sinceOver \/ (k \in DOMAIN since /\ since[k] # v))
                  /\ autoFlushes' = autoFlushes + 1
             ELSE /\ pc' = "loop"
                  /\ since' = MapSet(since, k, v)
                  /\ sinceCalls' = sinceCalls + 1
                  /\ sinceOver' = (sinceOver \/ (k \in DOMAIN since /\ since[k] # v))
                  /\ UNCHANGED <<caller, tx, iter, txOpened, snapshot, batch,
                                 txState, expected, batchCalls, batchOver,
                                 autoFlushes, batchTotal>>
    /\ nWrites' = nWrites + 1
    /\ exceeded' = (exceeded \/ Cardinality(DOMAIN buffer') > batchSize)
    /\ UNCHANGED <<limit, batchSize, NoSync, store, disk, explicit, commits,
                   flushedOK, earlier>>

\* Flush() called by the caller: in the middle of the run, or as the last
\* statement of writeTest.
Flush ==
    /\ pc = "loop"
    /\ \E final \in BOOLEAN :
        /\ final \/ explicit < MaxExplicit
        /\ BeginFlush(buffer, IF final THEN "final" ELSE "Flush", since,
                      sinceCalls, sinceOver)
    /\ explicit' = explicit + 1
    /\ UNCHANGED <<limit, batchSize, buffer, NoSync, store, disk, calls,
                   autoFlushes, commits, flushedOK, earlier>>

\* One iteration of the range loop of Flush: Put, delete, and on a Put error
\* return it, which rolls the transaction back and ends in log.Fatal.
FlushPut ==
    /\ pc = "flush"
    /\ iter # {}
    /\ \E k \in iter, err \in BOOLEAN :
        /\ buffer' = BufferDelete(buffer, k)
        /\ iter' = iter \ {k}
        /\ pc' = AfterUpdate(err, "flush")
        /\ IF err
             THEN /\ store' = Rollback(store, tx)
                  /\ tx' = EmptyMap
                  /\ txState' = "rolledback"
             ELSE /\ tx' = TxPut(tx, k, buffer[k])
                  /\ UNCHANGED <<store, txState>>
    /\ UNCHANGED <<limit, batchSize, NoSync, disk, caller, calls, since,
                   sinceCalls, sinceOver, expected, batchCalls, batchOver,
                   txOpened, snapshot, batch, autoFlushes, explicit, commits,
                   flushedOK, batchTotal, earlier>>

\* The range loop is over: Db.Update commits (or fails to), Flush sets
\* Db.NoSync and returns to its caller.
FlushCommit ==
    /\ pc = "flush"
    /\ iter = {}
    /\ \E err \in BOOLEAN :
        /\ pc' = AfterUpdate(err, IF caller = "final" THEN "done" ELSE "loop")
        /\ IF err
             THEN /\ store' = Rollback(store, tx)
                  /\ txState' = "rolledback"
                  /\ UNCHANGED <<disk, NoSync, commits, flushedOK>>
             ELSE /\ store' = Commit(store, tx)
                  /\ disk' = DiskAfterCommit(NoSync, disk, store')
                  /\ txState' = "committed"
                  /\ NoSync' = TRUE
                  /\ commits' = commits \cup {store'}
                  /\ flushedOK' = store'
    /\ tx' = EmptyMap
    /\ UNCHANGED <<limit, batchSize, buffer, iter, caller, calls, since,
                   sinceCalls, sinceOver, expected, batchCalls, batchOver,
                   txOpened, snapshot, batch, autoFlushes, explicit,
                   batchTotal, earlier>>

\* The machine fails: the process and its memory are gone, the open
\* transaction is lost, and the file holds one of the images the disk had.
Crash ==
    /\ pc \in {"new", "loop", "flush", "done", "fatal"}
    /\ \E image \in disk : store' = image
    /\ disk' = {store'}
    /\ pc' = "crashed"
    /\ buffer' = EmptyMap
    /\ tx' = EmptyMap
    /\ iter' = {}
    /\ limit' = NoLimit
    /\ UNCHANGED <<batchSize, NoSync, caller, calls, flushes, autoFlushes,
                   explicit, commits, flushedOK, earlier>>

Next ==
    \/ hellobolt
    \/ NewBoltType
    \/ NewBoltTypeReturn
    \/ Writer
    \/ Flush
    \/ FlushPut
    \/ FlushCommit
    \/ Crash

Spec == Init /\ [][Next]_vars

\* ------------------------------------------------- the unbuffered variant
\* The boltType of the variant without a buffer: Writer runs one Db.Update
\* per call, there is no Flush, and prepBolt opens my.db without removing it.
\* It uses pc, store, disk, tx, the histories of the calls and of the last
\* transaction; the fields of the buffered boltType stay as Init leaves them.

\* prepBolt of the variant: bolt.Open and CreateBucketIfNotExists keep what
\* the file holds.
uprepBolt(file) == file

uInit ==
    /\ pc = "ustart"
    /\ limit = NoLimit
    /\ batchSize = 0
    /\ buffer = EmptyMap
    /\ NoSync = FALSE
    /\ store \in {EmptyMap, OldFile}
    /\ disk = {store}
    /\ tx = EmptyMap
    /\ iter = {}
    /\ caller = "none"
    /\ nWrites = 0
    /\ written = EmptyMap
    /\ since = EmptyMap
    /\ sinceCalls = 0
    /\ sinceOver = FALSE
    /\ expected = EmptyMap
    /\ batchCalls = 0
    /\ batchOver = FALSE
    /\ crossOver = FALSE
    /\ txOpened = 0
    /\ autoFlushes = 0
    /\ explicit = 0
    /\ exceeded = FALSE
    /\ snapshot = store
    /\ batch = EmptyMap
    /\ txState = "none"
    /\ commits = {store}
    /\ flushedOK = EmptyMap
    /\ batchTotal = 0
    /\ earlier = EmptyMap

\* What the variant has no use for.
unused == <<limit, batchSize, buffer, NoSync, iter, caller, since, sinceCalls,
            sinceOver, batchCalls, batchOver, autoFlushes, explicit, exceeded,
            batch, flushedOK, batchTotal>>

\* hellobolt() of the variant: prepBolt, one transaction that Puts "answer",
\* a View, Close.  A failed transaction ends in log.Fatal.
uhellobolt ==
    /\ pc = "ustart"
    /\ \E err \in BOOLEAN :
        /\ pc' = IF err THEN "abort" ELSE "umain"
        /\ store' = IF err
                      THEN Rollback(uprepBolt(store),
                                    TxPut(EmptyMap, AnswerKey, AnswerValue))
                      ELSE Commit(uprepBolt(store),
                                  TxPut(EmptyMap, AnswerKey, AnswerValue))
    /\ disk' = {store'}
    /\ commits' = commits \cup {store'}
    /\ earlier' = store'
    /\ snapshot' = store'
    /\ UNCHANGED <<tx, nWrites, written, crossOver, expected, txOpened,
                   txState, unused>>

\* NewBoltType() of the variant: prepBolt opens the file hellobolt closed.
uNewBoltType ==
    /\ pc = "umain"
    /\ store' = uprepBolt(store)
    /\ disk' = {store'}
    /\ pc' = "uloop"
    /\ UNCHANGED <<tx, nWrites, written, crossOver, expected, txOpened,
                   txState, snapshot, commits, earlier, unused>>

\* Writer(key, value) of the variant up to the return of the function given
\* to Db.Update: the transaction begins and the one Put is made; a Put error
\* rolls it back and ends in log.Fatal.
uWriter ==
    /\ pc = "uloop"
    /\ nWrites < MaxWrites
    /\ \E kv \in Inputs, err \in BOOLEAN : LET k == kv[1]  v == kv[2] IN
        /\ written' = mapWriter(written, k, v)
        /\ crossOver' = (crossOver \/ (ToBytes(k) \in DOMAIN store
                                        /\ store[ToBytes(k)] # ToBytes(v)))
        /\ expected' = MapSet(EmptyMap, k, v)
        /\ pc' = AfterUpdate(err, "utx")
        /\ IF err
             THEN /\ store' = Rollback(store, EmptyMap)
                  /\ tx' = EmptyMap
                  /\ txState' = "rolledback"
             ELSE /\ tx' = TxPut(EmptyMap, k, v)
                  /\ txState' = "open"
                  /\ UNCHANGED store
    /\ nWrites' = nWrites + 1
    /\ txOpened' = txOpened + 1
    /\ snapshot' = store
    /\ UNCHANGED <<disk, commits, earlier, unused>>

\* The function returned nil: Db.Update commits (or fails to) and Writer
\* returns.
uWriterCommit ==
    /\ pc = "utx"
    /\ \E err \in BOOLEAN :
        /\ pc' = AfterUpdate(err, "uloop")
        /\ IF err
             THEN /\ store' = Rollback(store, tx)
                  /\ txState' = "rolledback"
                  /\ UNCHANGED <<disk, commits>>
             ELSE /\ store' = Commit(store, tx)
                  /\ disk' = DiskAfterCommit(NoSync, disk, store')
                  /\ txState' = "committed"
                  /\ commits' = commits \cup {store'}
    /\ tx' = EmptyMap
    /\ UNCHANGED <<nWrites, written, crossOver, expected, txOpened, snapshot,
                   earlier, unused>>

\* writeTest of the variant returns after its last Writer call; it has no
\* Flush to call.
uwriteTestReturn ==
    /\ pc = "uloop"
    /\ pc' = "udone"
    /\ UNCHANGED <<store, disk, tx, nWrites, written, crossOver, expected,
                   txOpened, txState, snapshot, commits, earlier, unused>>

uNext ==
    \/ uhellobolt
    \/ uNewBoltType
    \/ uWriter
    \/ uWriterCommit
    \/ uwriteTestReturn

SpecU == uInit /\ [][uNext]_vars

\* --------------------------------------------------- reading the histories
\* The boltType is built and main runs writeTest on it.
Built == pc \notin {"start", "main", "new", "abort"}

\* The Writer calls made so far had pairwise distinct keys.
DistinctKeys == Cardinality(DOMAIN written) = nWrites

BufferLen == Cardinality(DOMAIN buffer)

\* ------------------------------------------------------------------ claims

\* C1: threshold boundary.  Starting from the empty buffer and with no
\* explicit Flush, up to batchSize Writer calls with pairwise distinct keys
\* open no transaction and leave that many entries in the buffer, and the
\* call after them (batchSize + 1 distinct keys) triggers exactly one Flush.
C1_ThresholdBoundary ==
    (Built /\ explicit = 0 /\ DistinctKeys) =>
        /\ nWrites <= batchSize =>
              /\ autoFlushes = 0
              /\ txOpened = 0
              /\ pc = "loop" => BufferLen = nWrites
        /\ nWrites = batchSize + 1 =>
              /\ autoFlushes = 1
              /\ txOpened = 1

C1_Witness ==
    /\ pc = "loop"
    /\ explicit = 0
    /\ DistinctKeys
    /\ nWrites = batchSize + 1
    /\ autoFlushes = 1

\* C2: round trip.  When the run ends with its final Flush, reading every
\* written key from the bucket and converting the bytes back gives the value
\* of the last Writer call for that key.
C2_RoundTrip ==
    pc = "done" =>
        \A k \in DOMAIN written :
            /\ ToBytes(k) \in DOMAIN store
            /\ FromBytes(store[ToBytes(k)]) = written[k]

C2_Witness ==
    /\ pc = "done"
    /\ autoFlushes >= 1
    /\ crossOver
    /\ nWrites > Cardinality(DOMAIN written)

\* C3: no flush below the threshold.  As long as the buffer was never above
\* batchSize and Flush was not called, no transaction was opened, the bucket
\* and the file are as prepBolt left them, and the buffer holds the writes.
C3_NoFlushBelowThreshold ==
    (Built /\ ~exceeded /\ explicit = 0) =>
        /\ txOpened = 0
        /\ autoFlushes = 0
        /\ store = EmptyMap
        /\ disk = {EmptyMap}
        /\ pc = "loop" => buffer = written

C3_Witness ==
    /\ pc = "loop"
    /\ ~exceeded
    /\ explicit = 0
    /\ nWrites > batchSize
    /\ BufferLen = batchSize

\* C4: an automatic flush resets the buffer.  When a Writer call that ran a
\* Flush has returned, the buffer is empty and every entry it held at the
\* start of the Flush, the written one included, is in the bucket; and a
\* Writer call that left the buffer above batchSize is inside such a Flush.
C4_AutoFlushResets ==
    /\ (pc = "loop" /\ caller = "Writer" /\ sinceCalls = 0) =>
          /\ buffer = EmptyMap
          /\ \A k \in (DOMAIN batch) \cup (DOMAIN expected) :
                /\ k \in DOMAIN expected
                /\ ToBytes(k) \in DOMAIN store
                /\ store[ToBytes(k)] = ToBytes(expected[k])
    /\ (pc = "loop" /\ exceeded /\ explicit = 0) => autoFlushes >= 1

C4_Witness ==
    /\ pc = "loop"
    /\ caller = "Writer"
    /\ sinceCalls = 0
    /\ txState = "committed"
    /\ Cardinality(DOMAIN batch) = batchSize + 1
    /\ autoFlushes = 1

\* C5: bounded buffer.  Between calls the buffer has at most batchSize
\* entries; it has more only inside a Writer call, during the Flush that
\* call runs.
C5_BoundedBuffer ==
    /\ pc \in {"loop", "done", "fatal"} => BufferLen <= batchSize
    /\ BufferLen > batchSize => (pc = "flush" /\ caller = "Writer")

C5_Witness ==
    /\ pc = "flush"
    /\ caller = "Writer"
    /\ BufferLen = batchSize + 1
    /\ txOpened >= 2

\* C6: overwrite within a batch.  Between calls the buffer holds one entry
\* per key written since the last Flush, with the last value written; a
\* Flush Puts only that value for the key, and the committed bucket is the
\* previous one with those last values written over it.
C6_OverwriteInBatch ==
    /\ pc = "loop" => (buffer = since /\ BufferLen <= sinceCalls)
    /\ pc = "flush" =>
          \A k \in DOMAIN expected :
              ToBytes(k) \in DOMAIN tx =>
                  tx[ToBytes(k)] = ToBytes(expected[k])
    /\ pc = "flush" => DOMAIN tx \subseteq {ToBytes(k) : k \in DOMAIN expected}
    /\ (txState = "committed" /\ pc # "crashed") =>
          store = Overlay(snapshot, BytesOfMap(expected))

C6_Witness ==
    /\ pc \in {"loop", "done"}
    /\ txState = "committed"
    /\ batchOver
    /\ batchCalls = Cardinality(DOMAIN expected) + 1

\* C7: atomicity of a flush.  The bucket a reader sees is the one the
\* transaction started from, or, once the transaction is committed, that one
\* with the whole batch written over it; it is always one of the committed
\* contents, also after a failed Flush and after a crash.
C7_FlushAtomic ==
    /\ store \in commits
    /\ (Built /\ pc # "crashed") =>
          \/ txState # "committed" /\ store = snapshot
          \/ txState = "committed" /\ store = Overlay(snapshot, BytesOfMap(batch))

C7_Witness ==
    /\ pc = "fatal"
    /\ txState = "rolledback"
    /\ Cardinality(DOMAIN batch) >= 2
    /\ iter = {}
    /\ Cardinality(commits) >= 2

\* C8: durability of every successful flush.  After a crash the bucket still
\* holds every entry it held when the last successful Flush returned.
C8_DurableAfterFlush ==
    pc = "crashed" =>
        \A bk \in DOMAIN flushedOK :
            /\ bk \in DOMAIN store
            /\ store[bk] = flushedOK[bk]

\* C9: fatal abort on store failure.  A failed transaction ends the run: the
\* run is in its fatal state, the bucket is the one the failed transaction
\* started from, and from then on no Writer or Flush runs and the run never
\* reports its result.
C9_FatalAbort ==
    /\ [](txState = "rolledback" => pc \in {"fatal", "crashed"})
    /\ [](pc = "fatal" => (txState = "rolledback" /\ store = snapshot /\ store \in commits))
    /\ [][pc = "fatal" =>
            /\ pc' \in {"fatal", "crashed"}
            /\ nWrites' = nWrites
            /\ txOpened' = txOpened
            /\ autoFlushes' = autoFlushes
            /\ explicit' = explicit]_vars

C9_Witness ==
    /\ pc = "fatal"
    /\ Cardinality(commits) >= 2
    /\ Cardinality(DOMAIN batch) >= 2
    /\ nWrites < MaxWrites

\* C10: caller-configurable threshold.  The batchSize of the boltType that
\* NewBoltType returns is the limit the call was given.
C10_ThresholdIsLimit ==
    pc = "new" => batchSize = limit

\* Flush calls the caller made before the final one of writeTest.
MidFlushes == explicit - (IF caller = "final" THEN 1 ELSE 0)

\* The bucket keys of the keys given to Writer.
WrittenKeys == {ToBytes(k) : k \in DOMAIN written}

\* Looking a key up in the buffer first and in the bucket second; the empty
\* string when neither holds it.
Lookup(k) ==
    IF k \in DOMAIN buffer THEN buffer[k]
    ELSE IF ToBytes(k) \in DOMAIN store THEN FromBytes(store[ToBytes(k)])
    ELSE <<>>

\* C11: idempotence of drain.  When a Flush has returned and no Writer call
\* followed, the buffer is empty and the bucket holds what the Flush was
\* given; a Flush that begins with no Writer call since the Flush before it
\* is given no entry, Puts nothing, and its commit leaves the bucket as it
\* found it and the buffer empty.
C11_DrainIdempotent ==
    /\ (pc \in {"loop", "done"} /\ sinceCalls = 0 /\ txOpened >= 1) =>
          /\ buffer = EmptyMap
          /\ \A k \in DOMAIN expected :
                /\ ToBytes(k) \in DOMAIN store
                /\ store[ToBytes(k)] = ToBytes(expected[k])
    /\ (Built /\ batchCalls = 0 /\ txOpened >= 1) =>
          /\ batch = EmptyMap
          /\ pc = "flush" => (iter = {} /\ tx = EmptyMap)
          /\ (txState = "committed" /\ pc \in {"loop", "done"}) =>
                /\ store = snapshot
                /\ sinceCalls = 0 => buffer = EmptyMap

C11_Witness ==
    /\ pc = "done"
    /\ explicit = 2
    /\ autoFlushes = 0
    /\ batchCalls = 0
    /\ txState = "committed"
    /\ nWrites >= 2
    /\ Cardinality(DOMAIN store) >= 2

\* C12: flusher state machine.  The flusher is flushing exactly while a
\* transaction of Flush is open; it starts flushing only from between two
\* calls, on a Writer call that leaves the buffer above batchSize or on a
\* Flush call of the caller; it stops only when its transaction is committed
\* or rolled back (or the machine fails); and while it is flushing no Flush
\* begins, no Writer runs and the buffer only loses entries.
C12_FlusherStateMachine ==
    /\ []((Built /\ pc # "crashed") => (pc = "flush" <=> txState = "open"))
    /\ [][(pc # "flush" /\ pc' = "flush") =>
            /\ pc = "loop"
            /\ txOpened' = txOpened + 1
            /\ \/ /\ nWrites' = nWrites + 1
                  /\ Cardinality(DOMAIN buffer') > batchSize
                  /\ explicit' = explicit
                  /\ autoFlushes' = autoFlushes + 1
               \/ /\ nWrites' = nWrites
                  /\ explicit' = explicit + 1
                  /\ buffer' = buffer]_vars
    /\ [][(pc = "loop" /\ nWrites' = nWrites + 1
              /\ Cardinality(DOMAIN buffer') <= batchSize) => pc' = "loop"]_vars
    /\ [][(pc = "flush" /\ pc' # "flush") =>
            \/ pc' = "crashed"
            \/ txState' = "committed" /\ pc' \in {"loop", "done"}
            \/ txState' = "rolledback" /\ pc' = "fatal"]_vars
    /\ [][pc = "flush" =>
            /\ txOpened' = txOpened
            /\ nWrites' = nWrites
            /\ explicit' = explicit
            /\ autoFlushes' = autoFlushes
            /\ pc' # "crashed" =>
                  /\ DOMAIN buffer' \subseteq DOMAIN buffer
                  /\ \A k \in DOMAIN buffer' : buffer'[k] = buffer[k]]_vars

C12_Witness ==
    /\ pc = "flush"
    /\ caller = "Writer"
    /\ explicit = 1
    /\ txOpened = 2
    /\ Cardinality(iter) = 1
    /\ Cardinality(DOMAIN tx) = batchSize

\* C13: fresh store per run.  When NewBoltType has run prepBolt the bucket
\* is empty; from then on it never holds the key "answer" that hellobolt
\* committed through its own handle; and when writeTest is done the keys of
\* the bucket are exactly the keys writeTest wrote.
C13_FreshStore ==
    /\ pc = "new" => store = EmptyMap
    /\ (Built \/ pc = "new") => ToBytes(AnswerKey) \notin DOMAIN store
    /\ pc = "done" => DOMAIN store = WrittenKeys

C13_Witness ==
    /\ pc = "done"
    /\ ToBytes(AnswerKey) \in DOMAIN earlier
    /\ FromBytes(earlier[ToBytes(AnswerKey)]) = AnswerValue
    /\ nWrites >= 1
    /\ store # EmptyMap

C15_RefinesMap ==
    pc = "done" => store = BytesOfMap(written)

C15_Witness ==
    /\ pc = "done"
    /\ MidFlushes = 0
    /\ autoFlushes = 1
    /\ batchCalls = 0
    /\ nWrites > Cardinality(DOMAIN written)
    /\ Cardinality(DOMAIN written) = batchSize + 1

\* C16: batch sizes.  Every batch an automatic Flush is given has
\* batchSize + 1 entries; in a run of N Writer calls with pairwise distinct
\* keys and no Flush but the final one there are N div (batchSize + 1)
\* automatic flushes, N mod (batchSize + 1) entries are in the buffer
\* between calls and in the batch of the final Flush, and at the end the
\* batches held N entries in all and the bucket holds the N keys.
C16_BatchSizes ==
    /\ (Built /\ caller = "Writer") => Cardinality(DOMAIN batch) = batchSize + 1
    /\ (Built /\ DistinctKeys /\ MidFlushes = 0) =>
          /\ autoFlushes = nWrites \div (batchSize + 1)
          /\ pc = "loop" => BufferLen = nWrites % (batchSize + 1)
          /\ caller = "final" =>
                Cardinality(DOMAIN batch) = nWrites % (batchSize + 1)
          /\ pc = "done" =>
                /\ batchTotal = nWrites
                /\ txOpened = autoFlushes + 1
                /\ DOMAIN store = WrittenKeys
                /\ Cardinality(DOMAIN store) = nWrites

C16_Witness ==
    /\ pc = "done"
    /\ DistinctKeys
    /\ MidFlushes = 0
    /\ nWrites = batchSize + 1
    /\ autoFlushes = 1
    /\ batch = EmptyMap
    /\ \A i \in 0..(nWrites - 1) :
          /\ keyValue(i)[1] \in DOMAIN written
          /\ written[keyValue(i)[1]] = keyValue(i)[2]

\* C17: the unbuffered variant.  Every Writer call opens exactly one
\* transaction, which holds exactly the call's key and value and leaves the
\* bucket alone until it commits; when Writer has returned the bucket is the
\* one before the call with that entry written over it, so between calls
\* and at the end, with no Flush at all, the bucket holds the last value
\* written for every written key; a failed transaction is rolled back and
\* ends the run for good.
C17_Unbuffered ==
    /\ [](txOpened = nWrites)
    /\ [](pc = "utx" =>
            /\ txState = "open"
            /\ Cardinality(DOMAIN tx) = 1
            /\ tx = BytesOfMap(expected)
            /\ store = snapshot)
    /\ []((pc \in {"uloop", "udone"} /\ nWrites >= 1) =>
            /\ txState = "committed"
            /\ store = Overlay(snapshot, BytesOfMap(expected)))
    /\ [](pc \in {"uloop", "udone"} =>
            \A k \in DOMAIN written :
                /\ ToBytes(k) \in DOMAIN store
                /\ FromBytes(store[ToBytes(k)]) = written[k])
    /\ [](txState = "rolledback" => (pc = "fatal" /\ store = snapshot))
    /\ [][pc = "fatal" =>
            /\ pc' = "fatal"
            /\ nWrites' = nWrites
            /\ txOpened' = txOpened
            /\ store' = store]_vars

C17_Witness ==
    /\ pc = "udone"
    /\ explicit = 0
    /\ nWrites > Cardinality(DOMAIN written)
    /\ Cardinality(DOMAIN written) >= 2
    /\ crossOver
    /\ ToBytes(AnswerKey) \in DOMAIN store

====
